---- MODULE Spec2Model ----
(***************************************************************************)
(* The car of yorg (src/car.py): the per-frame controller _Logic.update,   *)
(* the force fan-out _Phys.set_forces, the audio feedback _Audio.update    *)
(* and the frame callback _Event.evt_OnFrame that drives them.             *)
(*                                                                         *)
(* Numbers are exact fixed-point integers (float rounding is not           *)
(* modelled):                                                              *)
(*   angles : 1/300 degree      (40 degrees = 12000)                       *)
(*   speeds : 1/100 km/h        (90 km/h = 9000, .05 km/h = 5)             *)
(*   time   : milliseconds      (120 degrees/s = 36 angle units per ms)    *)
(* With these units  speed_ratio * steering_range  is an exact integer.    *)
(***************************************************************************)
EXTENDS Integers, Sequences, FiniteSets, TLC

VARIABLES steering,        \* _Logic.__steering
          input_dct,       \* the snapshot evt_OnFrame built in the last frame
          speed,           \* phys.speed as read in the last frame
          d_t,             \* globalClock.getDt() of the last frame
          speed_ratio,     \* update's local, times max_speed
          steering_clamp,  \* update's local
          vehicle,         \* per-wheel values held by the BulletVehicle
          brake_sfx,       \* status of _Audio.brake_sfx
          engine_volume,   \* volume of _Audio.engine_sfx, times max_speed
          calls,           \* the calls the last frame made, in order
          frame_time,      \* globalClock.getFrameTime()
          last_wall_time,  \* _Event.__last_wall_time
          last_goal_time,  \* _Event.__last_goal_time
          last_slow_time,  \* _Event.__last_slow_time
          printed,         \* what the last handler printed, in order
          node2,           \* name of node2 in the last on_collision, "" after a frame
          destroyed        \* destroy() calls received by each node path of _Gfx

vars == <<steering, input_dct, speed, d_t, speed_ratio, steering_clamp,
          vehicle, brake_sfx, engine_volume, calls,
          frame_time, last_wall_time, last_goal_time, last_slow_time,
          printed, node2, destroyed>>

----------------------------------------------------------------------------
(* Bounds of the model. *)

\* d_t ranges over 0, 100 ms, ..., MaxDtTicks * 100 ms
MaxDtTicks == 1

Dts == {k * 100 : k \in 0..MaxDtTicks}

\* speeds the vehicle reports: reversing, at rest, exactly .05 km/h,
\* exactly max_speed, above max_speed
Speeds == {-3000, 0, 5, 9000, 12000}

Inputs == [forward : BOOLEAN, left : BOOLEAN, reverse : BOOLEAN, right : BOOLEAN]

\* the keys and speeds of the steering liveness specification
SteerInputs == {inp \in Inputs : ~inp.forward /\ ~inp.reverse}

SteerSpeeds == {-3000, 0, 9000}

\* the keys and speeds of the audio specification: below, at and above the
\* 50 km/h of the brake sound
AudioInputs == {inp \in Inputs : ~inp.forward}

AudioSpeeds == {0, 5000, 9000}

\* the collision specification: no key pressed, the car at rest, frames of
\* 0, 50 and 100 ms, and a clock that stops at MaxFrameTicks * 50 ms
CollisionInputs == {inp \in Inputs : ~inp.forward /\ ~inp.reverse
                                       /\ ~inp.left /\ ~inp.right}

CollisionSpeeds == {0}

CollisionDts == {0, 50, 100}

MaxFrameTicks == 4

MaxFrameTime == MaxFrameTicks * 50

\* the names node2 can carry in a contact: the three the car reacts to and
\* one it does not
NodeNames == {"Wall", "Goal", "Slow", "Track"}

----------------------------------------------------------------------------
(* Python builtins. *)

min(a, b) == IF a <= b THEN a ELSE b

max(a, b) == IF a >= b THEN a ELSE b

abs(a) == IF a < 0 THEN -a ELSE a

----------------------------------------------------------------------------
(* _Phys: the tuning attributes and the wheels. *)

max_speed == 9000

steering_min_speed == 12000

steering_max_speed == 3000

steering_inc == 36

steering_dec == 36

engine_acc_frc == 5000

engine_dec_frc == -2000

brake_frc == 100

Wheels == 0..3

\* wheels_info: the wheels are created in this order, front flag as given
wheels_front == [w \in Wheels |-> w \in {0, 1}]

\* mutant: the engine force is applied to wheels 0 and 1
set_forces_front_drive(veh, eng, brk, st) ==
    [steering |-> [w \in Wheels |-> IF w \in {0, 1} THEN st  ELSE veh.steering[w]],
     engine   |-> [w \in Wheels |-> IF w \in {0, 1} THEN eng ELSE veh.engine[w]],
     brake    |-> [w \in Wheels |-> IF w \in {2, 3} THEN brk ELSE veh.brake[w]]]

\* _Phys.set_forces: steering on wheels 0 and 1, engine and brake on 2 and 3
set_forces(veh, eng, brk, st) ==
    [steering |-> [w \in Wheels |-> IF w \in {0, 1} THEN st  ELSE veh.steering[w]],
     engine   |-> [w \in Wheels |-> IF w \in {2, 3} THEN eng ELSE veh.engine[w]],
     brake    |-> [w \in Wheels |-> IF w \in {2, 3} THEN brk ELSE veh.brake[w]]]

----------------------------------------------------------------------------------------------------------------------------------------------
(* _Logic.update, step by step.  s is the steering as the step finds it.   *)

\* min(1.0, speed / max_speed), times max_speed
update_speed_ratio(spd) == min(max_speed, spd)

\* mutant: steering_range taken as max - min
update_steering_clamp_swapped(spd) ==
    LET steering_range == steering_max_speed - steering_min_speed
    IN  steering_min_speed - (update_speed_ratio(spd) * steering_range) \div max_speed

\* steering_min_speed - speed_ratio * steering_range
update_steering_clamp(spd) ==
    LET steering_range == steering_min_speed - steering_max_speed
    IN  steering_min_speed - (update_speed_ratio(spd) * steering_range) \div max_speed

\* mutant: the forward cutoff tests speed <= max_speed
update_forces_le(inp, spd) ==
    LET eng1 == IF inp.forward
                THEN (IF spd <= max_speed THEN engine_acc_frc ELSE 0)
                ELSE 0
        eng2 == IF inp.reverse
                THEN (IF spd < 5 THEN engine_dec_frc ELSE 0)
                ELSE eng1
        brk2 == IF inp.reverse THEN brake_frc ELSE 0
    IN  [eng_frc |-> eng2, brake_frc |-> brk2]

\* mutant: the reverse branch runs before the forward branch
update_forces_reverse_first(inp, spd) ==
    LET eng1 == IF inp.reverse
                THEN (IF spd < 5 THEN engine_dec_frc ELSE 0)
                ELSE 0
        brk1 == IF inp.reverse THEN brake_frc ELSE 0
        eng2 == IF inp.forward
                THEN (IF spd < max_speed THEN engine_acc_frc ELSE 0)
                ELSE eng1
        brk2 == IF inp.forward THEN 0 ELSE brk1
    IN  [eng_frc |-> eng2, brake_frc |-> brk2]

\* mutant: the brake force defaults to brake_frc instead of 0
update_forces_brake_default(inp, spd) ==
    LET eng1 == IF inp.forward
                THEN (IF spd < max_speed THEN engine_acc_frc ELSE 0)
                ELSE 0
        brk1 == IF inp.forward THEN 0 ELSE brake_frc
        eng2 == IF inp.reverse
                THEN (IF spd < 5 THEN engine_dec_frc ELSE 0)
                ELSE eng1
        brk2 == IF inp.reverse THEN brake_frc ELSE brk1
    IN  [eng_frc |-> eng2, brake_frc |-> brk2]

\* eng_frc = brake_frc = 0, then the forward branch, then the reverse branch
update_forces(inp, spd) ==
    LET eng0 == 0
        brk0 == 0
        eng1 == IF inp.forward
                THEN (IF spd < max_speed THEN engine_acc_frc ELSE 0)
                ELSE eng0
        brk1 == IF inp.forward THEN 0 ELSE brk0
        eng2 == IF inp.reverse
                THEN (IF spd < 5 THEN engine_dec_frc ELSE 0)
                ELSE eng1
        brk2 == IF inp.reverse THEN brake_frc ELSE brk1
    IN  [eng_frc |-> eng2, brake_frc |-> brk2]

\* mutant: the left branch clamps on both sides
update_left_two_sided(s, inp, inc, clamp) ==
    IF inp.left THEN max(min(s + inc, clamp), -clamp) ELSE s

\* mutant: the left branch nested under the forward branch
update_left_under_forward(s, inp, inc, clamp) ==
    IF inp.forward /\ inp.left THEN min(s + inc, clamp) ELSE s

\* if input_dct['left']: add the increment, cap at +clamp
update_left(s, inp, inc, clamp) ==
    IF inp.left THEN min(s + inc, clamp) ELSE s

\* mutant: the right branch written as elif of the left branch
update_right_elif(s, inp, inc, clamp) ==
    IF inp.right /\ ~inp.left THEN max(s - inc, -clamp) ELSE s

\* if input_dct['right']: subtract the increment, floor at -clamp
update_right(s, inp, inc, clamp) ==
    IF inp.right THEN max(s - inc, -clamp) ELSE s

\* mutant: the snap test forgets abs()
update_centering_no_abs(s, inp, dec) ==
    IF ~inp.left /\ ~inp.right
    THEN (IF s <= dec
          THEN 0
          ELSE LET steering_sign == IF s > 0 THEN -1 ELSE 1
               IN  s + steering_sign * dec)
    ELSE s

\* mutant: no snap to 0, the decrement is always applied
update_centering_nosnap(s, inp, dec) ==
    IF ~inp.left /\ ~inp.right
    THEN (LET steering_sign == IF s > 0 THEN -1 ELSE 1
          IN  s + steering_sign * dec)
    ELSE s

\* if neither: snap to 0 within one decrement, else move toward 0
update_centering(s, inp, dec) ==
    IF ~inp.left /\ ~inp.right
    THEN (IF abs(s) <= dec
          THEN 0
          ELSE LET steering_sign == IF s > 0 THEN -1 ELSE 1
               IN  s + steering_sign * dec)
    ELSE s

\* The steering part of the update: left, then right, then centering, each
\* finding the steering as the step before left it.
update_steering_steps(s, inp, inc, dec, clamp) ==
    update_centering(update_right(update_left(s, inp, inc, clamp), inp, inc, clamp),
                     inp, dec)

update_steering(s, inp, spd, dt) ==
    update_steering_steps(s, inp, dt * steering_inc, dt * steering_dec,
                          update_steering_clamp(spd))

\* What the update leaves behind: the new steering, the locals, and the one
\* set_forces call it ends with, which is handed the new steering.
update_result(s_new, frc, spd) ==
    [steering       |-> s_new,
     speed_ratio    |-> update_speed_ratio(spd),
     steering_clamp |-> update_steering_clamp(spd),
     calls          |-> <<"phys.set_forces">>,
     args           |-> [eng_frc   |-> frc.eng_frc,
                         brake_frc |-> frc.brake_frc,
                         steering  |-> s_new]]

\* mutant: set_forces is handed the steering as it was before the update
Logic_update_stale(s, inp, spd, dt) ==
    [update_result(update_steering(s, inp, spd, dt), update_forces(inp, spd), spd)
        EXCEPT !.args.steering = s]

\* The whole update as a function of the prior steering, the input
\* snapshot, the speed and the frame's dt.
Logic_update(s, inp, spd, dt) ==
    update_result(update_steering(s, inp, spd, dt), update_forces(inp, spd), spd)

----------------------------------------------------------------------------
(* _Audio.update: the brake sound and the engine volume. *)

\* mutant: play() without the test of the sound's status
Audio_update_replay(status, inp, spd) ==
    LET play  == inp.reverse /\ spd > 5000
        st1   == IF play THEN "PLAYING" ELSE status
        stop  == ~inp.reverse \/ spd < 5000
        st2   == IF stop THEN "READY" ELSE st1
    IN  [brake_sfx |-> st2,
         volume    |-> max(max_speed \div 4, abs(spd)),
         calls     |-> (IF play THEN <<"brake_sfx.play">> ELSE <<>>)
                       \o (IF stop THEN <<"brake_sfx.stop">> ELSE <<>>)
                       \o <<"engine_sfx.set_volume">>]

Audio_update(status, inp, spd) ==
    LET play  == inp.reverse /\ spd > 5000 /\ status # "PLAYING"
        st1   == IF play THEN "PLAYING" ELSE status
        stop  == ~inp.reverse \/ spd < 5000
        st2   == IF stop THEN "READY" ELSE st1
    IN  [brake_sfx |-> st2,
         volume    |-> max(max_speed \div 4, abs(spd)),
         calls     |-> (IF play THEN <<"brake_sfx.play">> ELSE <<>>)
                       \o (IF stop THEN <<"brake_sfx.stop">> ELSE <<>>)
                       \o <<"engine_sfx.set_volume">>]

----------------------------------------------------------------------------
(* _Event: the contact timestamps.  None is the value __init__ gives them; *)
(* Python's `and` takes None and 0.0 as false.                             *)

None == -1

truthy(t) == t # None /\ t # 0

\* on_collision: the timestamp of the kind named by node2 becomes the frame
\* time; any other name changes nothing
collision_time(last, kind, name, now) == IF name = kind THEN now ELSE last

\* mutant: the report leaves the timestamp in place
report_keep(last, now) ==
    IF truthy(last) /\ now - last > 50
    THEN [last |-> last, print |-> TRUE]
    ELSE [last |-> last, print |-> FALSE]

\* one of the three ifs that close evt_OnFrame: a timestamp older than
\* .05 s is cleared and its kind printed
report(last, now) ==
    IF truthy(last) /\ now - last > 50
    THEN [last |-> None, print |-> TRUE]
    ELSE [last |-> last, print |-> FALSE]

----------------------------------------------------------------------------
(* _Gfx: the node paths __init__ creates and the list destroy walks. *)

GfxNodes == {"nodepath", "chassis_np", "front_right_wheel_np",
             "front_left_wheel_np", "rear_right_wheel_np", "rear_left_wheel_np"}

meshes == <<"nodepath", "chassis_np", "front_right_wheel_np",
            "front_left_wheel_np", "rear_right_wheel_np", "rear_right_wheel_np">>

----------------------------------------------------------------------------
(* The state after construction: _Logic.__init__, _Audio.__init__ and a    *)
(* vehicle whose wheels carry no steering and no force.  No frame has run, *)
(* so the recorded locals hold the values of a frame at rest.              *)

Init ==
    /\ steering = 0
    /\ input_dct = [forward |-> FALSE, left |-> FALSE, reverse |-> FALSE, right |-> FALSE]
    /\ speed = 0
    /\ d_t = 0
    /\ speed_ratio = 0
    /\ steering_clamp = steering_min_speed
    /\ vehicle = [steering |-> [w \in Wheels |-> 0],
                  engine   |-> [w \in Wheels |-> 0],
                  brake    |-> [w \in Wheels |-> 0]]
    /\ brake_sfx = "READY"
    /\ engine_volume = max_speed
    /\ calls = <<>>
    /\ frame_time = 0
    /\ last_wall_time = None
    /\ last_goal_time = None
    /\ last_slow_time = None
    /\ printed = <<>>
    /\ node2 = ""
    /\ destroyed = [n \in GfxNodes |-> 0]

\* _Event.evt_OnFrame up to the audio update: poll the input, run the
\* controller, run the audio.  InputSet is what the keys can be in this
\* frame, SpeedSet what the vehicle can report, DtSet what the frame can
\* last; each result is bound once.
OnFrameUpdate(InputSet, SpeedSet, DtSet) ==
    \E inp \in InputSet, spd \in SpeedSet, dt \in DtSet :
        \E lg \in {Logic_update(steering, inp, spd, dt)},
           au \in {Audio_update(brake_sfx, inp, spd)} :
            /\ input_dct' = inp
            /\ speed' = spd
            /\ d_t' = dt
            /\ steering' = lg.steering
            /\ speed_ratio' = lg.speed_ratio
            /\ steering_clamp' = lg.steering_clamp
            /\ vehicle' = set_forces(vehicle, lg.args.eng_frc, lg.args.brake_frc,
                                     lg.args.steering)
            /\ brake_sfx' = au.brake_sfx
            /\ engine_volume' = au.volume
            /\ calls' = <<"logic.update">> \o lg.calls \o <<"audio.update">> \o au.calls

\* The rest of evt_OnFrame: the three reports, in the order wall, goal,
\* slow, at the frame time now.
OnFrameReport(now) ==
    \E w \in {report(last_wall_time, now)},
       g \in {report(last_goal_time, now)},
       sl \in {report(last_slow_time, now)} :
        /\ last_wall_time' = w.last
        /\ last_goal_time' = g.last
        /\ last_slow_time' = sl.last
        /\ printed' = (IF w.print THEN <<"wall">> ELSE <<>>)
                      \o (IF g.print THEN <<"goal">> ELSE <<>>)
                      \o (IF sl.print THEN <<"slow">> ELSE <<>>)
        /\ node2' = ""

\* The whole callback where no contact is ever recorded: the timestamps are
\* None, so the reports never read the frame time, and the frame time is
\* not followed.
OnFrame(InputSet, SpeedSet) ==
    /\ OnFrameUpdate(InputSet, SpeedSet, Dts)
    /\ frame_time' = frame_time
    /\ OnFrameReport(frame_time')
    /\ UNCHANGED destroyed

evt_OnFrame == OnFrame(Inputs, Speeds)

Next == evt_OnFrame

Spec == Init /\ [][Next]_vars

\* The same callback with the throttle keys never pressed and the vehicle
\* reversing, at rest or at max_speed; the host engine keeps calling it.
evt_OnFrame_Steer == OnFrame(SteerInputs, SteerSpeeds)

SteerNext == evt_OnFrame_Steer

SteerSpec == Init /\ [][SteerNext]_vars /\ WF_vars(evt_OnFrame_Steer)

\* The callback with reverse held or not at speeds around 50 km/h.
evt_OnFrame_Audio == OnFrame(AudioInputs, AudioSpeeds)

AudioNext == evt_OnFrame_Audio

AudioSpec == Init /\ [][AudioNext]_vars

\* The callback with the clock followed: the frame time advances by the
\* frame's dt before the callback runs, up to MaxFrameTime.
evt_OnFrame_Clock ==
    /\ OnFrameUpdate(CollisionInputs, CollisionSpeeds, CollisionDts)
    /\ frame_time' = frame_time + d_t'
    /\ frame_time' <= MaxFrameTime
    /\ OnFrameReport(frame_time')
    /\ UNCHANGED destroyed

\* _Event.on_collision, for a contact with a node of any name
on_collision ==
    \E name \in NodeNames :
        /\ last_wall_time' = collision_time(last_wall_time, "Wall", name, frame_time)
        /\ last_goal_time' = collision_time(last_goal_time, "Goal", name, frame_time)
        /\ last_slow_time' = collision_time(last_slow_time, "Slow", name, frame_time)
        /\ printed' = <<>>
        /\ node2' = name
        /\ UNCHANGED <<steering, input_dct, speed, d_t, speed_ratio, steering_clamp,
                       vehicle, brake_sfx, engine_volume, calls, frame_time, destroyed>>

CollisionNext == evt_OnFrame_Clock \/ on_collision

CollisionSpec == Init /\ [][CollisionNext]_vars

\* _Gfx.destroy, called once: every entry of meshes receives destroy()
Gfx_destroy ==
    /\ \A n \in GfxNodes : destroyed[n] = 0
    /\ destroyed' = [n \in GfxNodes |->
                        destroyed[n] + Cardinality({i \in DOMAIN meshes : meshes[i] = n})]
    /\ UNCHANGED <<steering, input_dct, speed, d_t, speed_ratio, steering_clamp,
                   vehicle, brake_sfx, engine_volume, calls, frame_time,
                   last_wall_time, last_goal_time, last_slow_time, printed, node2>>

GfxNext == evt_OnFrame_Steer \/ Gfx_destroy

GfxSpec == Init /\ [][GfxNext]_vars

----------------------------------------------------------------------------
(* Vocabulary of the properties. *)

\* at least one frame has run, so the recorded locals are those of an update
Updated == calls # <<>>

FrontWheels == {w \in Wheels : wheels_front[w]}

RearWheels == {w \in Wheels : ~wheels_front[w]}

\* the values the last set_forces call handed to the vehicle
EngineSent(f) == \A w \in RearWheels : vehicle.engine[w] = f

BrakeSent(f) == \A w \in RearWheels : vehicle.brake[w] = f

SteeringSent(a) == \A w \in FrontWheels : vehicle.steering[w] = a

\* the last frame was a centering frame
Centering == Updated /\ ~input_dct.left /\ ~input_dct.right

----------------------------------------------------------------------------
\* C1: after every update the stored steering angle is within the clamp
\* computed in that same update: |steering| <= steering_clamp.
C1_SteeringBound ==
    Updated => abs(steering) <= steering_clamp

----------------------------------------------------------------------------
\* C2, as stated: for every fixed dt of the model (dt = 0 included), if
\* from some frame on every frame is a centering frame with that dt, the
\* steering eventually is 0 and stays 0; no centering frame flips the sign
\* of the steering and a centering frame leaves a steering of 0 at 0.
C2_NoOvershoot ==
    (~input_dct'.left /\ ~input_dct'.right)
        => /\ (steering > 0 => steering' >= 0)
           /\ (steering < 0 => steering' <= 0)
           /\ (steering = 0 => steering' = 0)

C2_CenteringConvergence_AnyDt ==
    /\ \A d \in Dts : (<>[](Centering /\ d_t = d)) => <>[](steering = 0)
    /\ [][C2_NoOvershoot]_vars

\* C2, amended: the same for every fixed dt > 0.
C2_CenteringConvergence ==
    /\ \A d \in Dts \ {0} : (<>[](Centering /\ d_t = d)) => <>[](steering = 0)
    /\ [][C2_NoOvershoot]_vars

\* a centering frame with dt > 0 has acted and the steering is still off 0
C2_Witness ==
    Centering /\ d_t > 0 /\ steering # 0

----------------------------------------------------------------------------
\* C3, as stated: a frame with left and right both set leaves the steering
\* that a frame with only right set leaves from the same prior state.
C3_LeftRightIsRightOnly ==
    [][(input_dct'.left /\ input_dct'.right)
         => steering' = update_steering(steering, [input_dct' EXCEPT !.left = FALSE],
                                        speed', d_t')]_vars

\* C3, amended: with left and right both set the left step (add the
\* increment, cap at +clamp) runs and then the right step (subtract the
\* increment, floor at -clamp): the result is
\* max(min(prior + inc, clamp) - inc, -clamp), which is the prior steering
\* whenever -clamp <= prior and prior + inc <= clamp (the two steps cancel;
\* a right-only frame would have subtracted the increment).
C3_LeftRightCancel ==
    [][(input_dct'.left /\ input_dct'.right)
         => /\ steering' = max(min(steering + d_t' * steering_inc, steering_clamp')
                                 - d_t' * steering_inc,
                               -steering_clamp')
            /\ (steering >= -steering_clamp'
                  /\ steering + d_t' * steering_inc <= steering_clamp')
                 => steering' = steering]_vars

\* a frame with both set and dt > 0 ended strictly inside the clamp, where
\* a right-only frame would have moved the steering
C3_Witness ==
    /\ Updated /\ input_dct.left /\ input_dct.right /\ d_t > 0
    /\ abs(steering) < steering_clamp

----------------------------------------------------------------------------
\* C4: with forward set and speed >= max_speed the engine force sent is 0
\* whatever the other flags; with forward set, reverse unset and
\* speed < max_speed it is engine_acc_frc; with forward set and reverse
\* unset the brake force sent is 0.
C4_ForwardForce ==
    (Updated /\ input_dct.forward)
        => /\ speed >= max_speed => EngineSent(0)
           /\ (~input_dct.reverse /\ speed < max_speed) => EngineSent(engine_acc_frc)
           /\ ~input_dct.reverse => BrakeSent(0)

\* forward held at or above max_speed together with reverse and a turn
C4_Witness ==
    /\ Updated /\ input_dct.forward /\ input_dct.reverse /\ input_dct.left
    /\ speed >= max_speed /\ steering # 0

----------------------------------------------------------------------------
\* C5: with reverse set, forward set or not, the brake force sent is
\* brake_frc and the engine force sent is engine_dec_frc exactly when
\* speed < .05 (negative speeds included) and 0 otherwise.
C5_ReverseRule ==
    (Updated /\ input_dct.reverse)
        => /\ BrakeSent(brake_frc)
           /\ speed < 5 => EngineSent(engine_dec_frc)
           /\ speed >= 5 => EngineSent(0)

\* forward and reverse both held while the car rolls backwards
C5_Witness ==
    Updated /\ input_dct.forward /\ input_dct.reverse /\ speed < 0

----------------------------------------------------------------------------
\* C6: for every speed the vehicle reports, speeds above max_speed and
\* negative speeds included, the speed ratio used by update is
\* speed / max_speed clamped to [0, 1].
C6_SpeedRatioRange ==
    Updated => /\ speed_ratio >= 0
               /\ speed_ratio <= max_speed
               /\ speed_ratio = max(0, min(max_speed, speed))

----------------------------------------------------------------------------
\* C7: over speed ratios in [0, 1] the steering clamp computed by update
\* does not increase when the speed ratio does not decrease; it is
\* steering_min_speed at speed 0 and steering_max_speed at
\* speed >= max_speed.
C7_ClampMonotone ==
    /\ [](Updated => /\ speed = 0 => steering_clamp = steering_min_speed
                     /\ speed >= max_speed => steering_clamp = steering_max_speed)
    /\ [][(Updated /\ 0 <= speed_ratio /\ speed_ratio <= speed_ratio')
            => steering_clamp' <= steering_clamp]_vars

\* an update at a speed strictly between 0 and max_speed, with a clamp
\* strictly between the two ends
C7_Witness ==
    /\ Updated /\ 0 < speed_ratio /\ speed_ratio < max_speed
    /\ steering_max_speed < steering_clamp /\ steering_clamp < steering_min_speed

----------------------------------------------------------------------------
\* C8: with neither forward nor reverse set the engine force and the brake
\* force sent are both 0, at every speed and steering; and the brake force
\* sent by any update is >= 0.
C8_IdleDefaults ==
    /\ (Updated /\ ~input_dct.forward /\ ~input_dct.reverse)
          => EngineSent(0) /\ BrakeSent(0)
    /\ \A w \in RearWheels : vehicle.brake[w] >= 0

\* an idle frame while the car moves and the wheels are turned
C8_Witness ==
    /\ Updated /\ ~input_dct.forward /\ ~input_dct.reverse
    /\ speed > 0 /\ steering # 0 /\ input_dct.right

----------------------------------------------------------------------------
\* C9: a frame makes exactly one _Logic.update, which makes exactly one
\* set_forces call; the steering handed over is the stored steering after
\* the update's mutation, and the call precedes the frame's audio update.
Count(seq, x) == Cardinality({i \in DOMAIN seq : seq[i] = x})

C9_OncePerFrame ==
    Updated => /\ Count(calls, "logic.update") = 1
               /\ Count(calls, "phys.set_forces") = 1
               /\ Count(calls, "audio.update") = 1
               /\ \A i, j \in DOMAIN calls :
                     (calls[i] = "phys.set_forces" /\ calls[j] = "audio.update")
                        => i < j
               /\ SteeringSent(steering)

\* a frame that turned the wheels: left held for dt > 0, steering off 0
C9_Witness ==
    /\ Updated /\ input_dct.left /\ ~input_dct.right /\ d_t > 0
    /\ steering > 0 /\ SteeringSent(steering)

----------------------------------------------------------------------------
\* C10: the steering an update leaves does not depend on forward and
\* reverse (same prior steering, speed, dt, left, right); the engine and
\* brake force it sends do not depend on left, right, dt or the prior
\* steering (same speed, forward, reverse).  For the steering, every update
\* is compared with the one that has forward and reverse unset: updates that
\* all agree with that one agree with each other.
C10_PriorSteerings == {-steering_min_speed, 0, steering_max_speed}

C10_Independence ==
    /\ [][update_steering(steering,
                          [input_dct' EXCEPT !.forward = FALSE, !.reverse = FALSE],
                          speed', d_t') = steering']_vars
    /\ [](Updated =>
            \A l, r \in BOOLEAN, dt \in Dts, s \in C10_PriorSteerings \cup {steering} :
                \E a \in {Logic_update(s, [input_dct EXCEPT !.left = l, !.right = r],
                                         speed, dt).args} :
                    EngineSent(a.eng_frc) /\ BrakeSent(a.brake_frc))

\* a frame that both pushed the throttle and turned the wheels
C10_Witness ==
    /\ Updated /\ input_dct.forward /\ ~input_dct.reverse /\ input_dct.right
    /\ d_t > 0 /\ steering < 0 /\ EngineSent(engine_acc_frc)

----------------------------------------------------------------------------
\* C11: an update with left set and right unset leaves the prior steering
\* plus dt * steering_inc capped at +clamp, with no lower bound applied; an
\* update with right set leaves a steering >= -clamp; the right branch
\* applies no upper bound (a right-only update leaves the prior steering
\* minus the increment floored at -clamp, however far above +clamp).
C11_OneSidedClamps ==
    [][/\ (input_dct'.left /\ ~input_dct'.right)
            => /\ steering' = min(steering + d_t' * steering_inc, steering_clamp')
               /\ steering' <= steering_clamp'
       /\ input_dct'.right => steering' >= -steering_clamp'
       /\ (input_dct'.right /\ ~input_dct'.left)
            => steering' = max(steering - d_t' * steering_inc, -steering_clamp')]_vars

\* a left-only update that left the steering below -clamp: the lower bound
\* was not enforced
C11_Witness ==
    /\ Updated /\ input_dct.left /\ ~input_dct.right
    /\ steering < -steering_clamp

----------------------------------------------------------------------------
\* C12: a centering update (left and right unset) makes the steering 0 if
\* |steering| <= dt * steering_dec and otherwise moves it toward 0 by
\* exactly dt * steering_dec; so the sign never flips, |steering| never
\* grows, 0 stays 0, and the result is the same at every speed (the clamp
\* plays no part).
C12_CenteringStep ==
    [][(~input_dct'.left /\ ~input_dct'.right)
         => /\ abs(steering) <= d_t' * steering_dec => steering' = 0
            /\ (abs(steering) > d_t' * steering_dec /\ steering > 0)
                 => steering' = steering - d_t' * steering_dec
            /\ (abs(steering) > d_t' * steering_dec /\ steering < 0)
                 => steering' = steering + d_t' * steering_dec
            /\ steering * steering' >= 0
            /\ abs(steering') <= abs(steering)
            /\ \A spd \in Speeds :
                 update_steering(steering, input_dct', spd, d_t') = steering']_vars

\* a centering update with dt > 0 that left the steering off 0 and outside
\* the clamp of its own frame
C12_Witness ==
    /\ Centering /\ d_t > 0 /\ steering # 0
    /\ abs(steering) > steering_clamp

----------------------------------------------------------------------------
\* C13: set_forces hands the steering to exactly the wheels registered as
\* front wheels (0 and 1) and the engine and brake force to exactly the
\* wheels registered as rear wheels (2 and 3): front wheels keep the engine
\* and brake force they were created with, rear wheels the steering they
\* were created with.
C13_ForceFanOut ==
    /\ FrontWheels = {0, 1}
    /\ RearWheels = {2, 3}
    /\ Updated =>
         \E f \in {update_forces(input_dct, speed)} :
            /\ \A w \in FrontWheels : /\ vehicle.steering[w] = steering
                                      /\ vehicle.engine[w] = 0
                                      /\ vehicle.brake[w] = 0
            /\ \A w \in RearWheels :  /\ vehicle.steering[w] = 0
                                      /\ vehicle.engine[w] = f.eng_frc
                                      /\ vehicle.brake[w] = f.brake_frc

\* a call that handed over a steering, an engine force and a brake force
\* all different from what the wheels were created with
C13_Witness ==
    /\ Updated /\ steering # 0
    /\ EngineSent(engine_dec_frc) /\ BrakeSent(brake_frc)
    /\ SteeringSent(steering)

----------------------------------------------------------------------------
(* Vocabulary of the collision properties. *)

Kinds == {"Wall", "Goal", "Slow"}

\* the pending timestamp of a kind
Last(K) ==
    CASE K = "Wall" -> last_wall_time
      [] K = "Goal" -> last_goal_time
      [] K = "Slow" -> last_slow_time

\* what a frame prints for a kind
Word(K) ==
    CASE K = "Wall" -> "wall"
      [] K = "Goal" -> "goal"
      [] K = "Slow" -> "slow"

\* how often the last handler reported a kind
Reports(K) == Cardinality({i \in DOMAIN printed : printed[i] = Word(K)})

----------------------------------------------------------------------------
\* C14: for each kind K of Wall, Goal, Slow: a frame reports K only if a K
\* timestamp is pending (a K contact was recorded since the last K report)
\* and the frame time exceeds it by more than .05 s; the report clears the
\* timestamp and a frame reports K at most once; a contact sets the
\* timestamp of its own kind to the frame time and leaves the timestamps of
\* the other kinds as they are.
C14_Debounce ==
    [][\A K \in Kinds :
         /\ Reports(K)' >= 1 => /\ Last(K) # None
                                /\ frame_time' - Last(K) > 50
                                /\ Last(K)' = None
         /\ Reports(K)' <= 1
         /\ node2' = K => Last(K)' = frame_time
         /\ (node2' # "" /\ node2' # K) => Last(K)' = Last(K)]_vars

\* a frame reported a wall contact and cleared it while a goal contact
\* stayed pending
C14_Witness ==
    /\ Reports("Wall") = 1 /\ last_wall_time = None
    /\ last_goal_time # None /\ Reports("Goal") = 0

----------------------------------------------------------------------------
\* C15: every Wall, Goal or Slow contact, also one recorded at frame time
\* 0, is reported by a later frame once frames keep coming with advancing
\* time and no further contact of the kind arrives.  A frame tests the same
\* condition every time, so the contact is reported by the first frame
\* whose time exceeds the contact's by more than .05 s or by none: no
\* timestamp older than .05 s is ever left pending.
C15_ContactReported ==
    \A K \in Kinds : Last(K) # None => frame_time - Last(K) <= 50

----------------------------------------------------------------------------
\* C16: after every _Audio.update the brake sound is playing if reverse is
\* set and speed > 50, and stopped if reverse is unset or speed < 50;
\* play() is never invoked on a playing sound; with reverse set at exactly
\* 50 the update neither starts nor stops the sound.
C16_BrakeSound ==
    /\ [](Updated => /\ (input_dct.reverse /\ speed > 5000) => brake_sfx = "PLAYING"
                     /\ (~input_dct.reverse \/ speed < 5000) => brake_sfx = "READY")
    /\ [][/\ Count(calls', "brake_sfx.play") >= 1 => brake_sfx # "PLAYING"
          /\ (input_dct'.reverse /\ speed' = 5000)
               => /\ brake_sfx' = brake_sfx
                  /\ Count(calls', "brake_sfx.play") = 0
                  /\ Count(calls', "brake_sfx.stop") = 0]_vars

\* reverse held at exactly 50 km/h with the sound still playing from an
\* earlier frame
C16_Witness ==
    Updated /\ input_dct.reverse /\ speed = 5000 /\ brake_sfx = "PLAYING"

----------------------------------------------------------------------------
\* C17: _Gfx.destroy destroys each of the six node paths __init__ created
\* exactly once.
C17_DestroyComplete ==
    (\E n \in GfxNodes : destroyed[n] > 0) => \A n \in GfxNodes : destroyed[n] = 1

====
